---- MODULE Spec2Model ----
(***************************************************************************)
(* Dispatch routers of vumi (vumi/dispatchers/base.py).                    *)
(*                                                                         *)
(* UserGroupingRouter: round-robin assignment of users to groups, kept in  *)
(* a key-value store shared by the dispatcher processes.                   *)
(* ContentKeywordRouter: keyword rules with fan-out and fallback, and the  *)
(* correlation of delivery events with outbound messages through store     *)
(* entries that expire.                                                    *)
(* BaseDispatchWorker.startWorker with SimpleDispatchRouter, ToAddrRouter  *)
(* and FromAddrMultiplexRouter: the start-up of a dispatcher and the       *)
(* routers that keep no state between dispatches.                          *)
(*                                                                         *)
(* Text that the code takes apart (group names, keywords, content,         *)
(* addresses) is a sequence of character codes: 0 is the space, 1..9 are   *)
(* lower-case letters and 11..19 the same letters in upper case.  Names    *)
(* that are only compared for equality (endpoints, message ids) are        *)
(* strings.                                                                *)
(***************************************************************************)
EXTENDS Integers, Sequences, FiniteSets, TLC

VARIABLES
    \* ---- UserGroupingRouter ----
    groups,      \* self.groups: config['group_mappings'], group name -> app
    r_user,      \* store keys <prefix>:user:<id>: user -> group name or None
    r_counter,   \* store key <prefix>:round-robin (an absent key counts 0)
    pc,          \* position of each dispatcher process in its current call
    call,        \* the locals of each process's current call
    nops,        \* number of calls started so far
    new_users,   \* history: users in the order their lookups found no entry
    last_set,    \* history: user -> group written by the latest store set
    done,        \* history: the outcome of the call that finished last
    first_ret,   \* history: user -> group its first finished call returned
    first_apps,  \* history: user -> apps its first-message dispatches went to
    obtained,    \* history: the counter values get_counter returned, in order
    \* ---- ContentKeywordRouter ----
    config,      \* self.config of the router
    rules,       \* self.rules, built by setup_routing
    r_msg,       \* store keys <prefix>:message:<id>: value and time to live
    ck_pc,       \* position of each outbound dispatch in progress
    ck_call,     \* the outbound message of each dispatch in progress
    corr,        \* history: per message id, who wrote the entry and its age
    ck_last,     \* history: the outcome of the step taken last
    \* ---- BaseDispatchWorker and the routers without a store ----
    w_config,    \* self.config of the worker
    w_pc,        \* position in startWorker (index of the next step)
    w_error,     \* the exception that ended startWorker, or None
    w_router,    \* self._router: what setup_routing built, or None
    w_publishers,\* transport_publisher, exposed_(event_)publisher
    w_consumers, \* transport_(event_)consumer, exposed_consumer
    w_served,    \* number of dispatch calls made by the consumers
    w_last       \* history: the outcome of the dispatch call made last

None == "None"

\* ------------------------------------------------------------------------
\* Bounds of the model
\* ------------------------------------------------------------------------
NumProcs == 2      \* dispatcher processes sharing the store
NumUsers == 3      \* distinct users (from_addr values)
MaxOps == 4        \* calls started when calls run one after another
NumConcUsers == 2  \* users whose messages arrive at interleaving processes
MaxConcOps == 3    \* calls started when the processes interleave
NumCKProcs == 1    \* outbound dispatches in progress at once
MaxTTL == 2        \* largest expire_routing_memory, in seconds
MaxServed == 2     \* dispatch calls made by the consumers of one worker

Procs == 1..NumProcs
CKProcs == 1..NumCKProcs
Users == 1..NumUsers
ConcUsers == 1..NumConcUsers

\* ------------------------------------------------------------------------
\* Text helpers
\* ------------------------------------------------------------------------

\* Python's truth test of a store reply: None and the empty string are false
\* (a group name is a sequence of character codes).
Falsy(v) == v = None \/ v = <<>>

\* The same test of a reply that is an endpoint name.
FalsyName(v) == v = None \/ v = ""

\* str.__lt__: lexicographic order on character codes, a proper prefix first.
RECURSIVE LexLess(_, _)
LexLess(a, b) ==
    IF b = <<>> THEN FALSE
    ELSE IF a = <<>> THEN TRUE
    ELSE IF Head(a) # Head(b) THEN Head(a) < Head(b)
    ELSE LexLess(Tail(a), Tail(b))

\* sorted(d.items()) of a dict d: the (key, value) pairs by ascending key.
RECURSIVE SortedItems(_)
SortedItems(d) ==
    IF DOMAIN d = {} THEN <<>>
    ELSE LET k == CHOOSE x \in DOMAIN d :
                      \A y \in DOMAIN d \ {x} : LexLess(x, y)
             rest == [y \in DOMAIN d \ {k} |-> d[y]]
         IN  <<<<k, d[k]>>>> \o SortedItems(rest)

\* ------------------------------------------------------------------------
\* Endpoints of the dispatch worker
\* ------------------------------------------------------------------------
exposed_names == {"app1", "app2", "app3"}
transport_names == {"transport1", "transport2"}

\* ------------------------------------------------------------------------
\* UserGroupingRouter
\* ------------------------------------------------------------------------

\* The group_mappings configurations explored: two and three groups; the
\* names of the second are not given in sorted order.
GroupMappings ==
    { (<<1>> :> "app1") @@ (<<2>> :> "app2"),
      (<<2>> :> "app1") @@ (<<1, 2>> :> "app2") @@ (<<1>> :> "app3") }

nr_of_groups == Cardinality(DOMAIN groups)

\* The counter kept below the number of groups.
incr_wrapping(counter) == (counter + 1) % nr_of_groups

\* r_server.incr(counter_key): the new value of the counter.
incr(counter) == counter + 1

\* get_counter without the "- 1" that turns incr's reply into an index
\* counted from 0.
get_counter_raw(incremented) == incremented

\* get_counter's result for the value incr returned.
get_counter(incremented) == incremented - 1

\* The group index advancing once for every two users.
current_group_id_paired(counter) == (counter \div 2) % nr_of_groups

\* self.current_group_id = counter % self.nr_of_groups
current_group_id(counter) == counter % nr_of_groups

\* get_next_group: the (group, transport_name) pair at the counter's index
\* of the sorted items (Python indexes from 0, TLA+ from 1).
get_next_group(counter) ==
    SortedItems(groups)[current_group_id(counter) + 1]

\* get_group_for_user without the test of the stored group: every lookup
\* assigns anew.
NeedsAssignmentAlways(group) == TRUE

\* The test "if not group" of get_group_for_user.
NeedsAssignment(group) == Falsy(group)

\* dispatch_inbound_message publishing to the transport_name of the first
\* sorted group instead of looking the user's group up in self.groups.
UGPublishFirst(group) ==
    [app |-> SortedItems(groups)[1][2], raised |-> FALSE]

\* dispatch_inbound_message: app = self.groups[group], then the publish to
\* exposed_publisher[app]; a missing key raises.
UGPublish(group) ==
    IF group \in DOMAIN groups /\ groups[group] \in exposed_names
    THEN [app |-> groups[group], raised |-> FALSE]
    ELSE [app |-> None, raised |-> TRUE]

NoCall == [op |-> None, user |-> 0, group |-> None, found |-> FALSE,
           quiet |-> FALSE]
NoDone == [op |-> None, user |-> 0, group |-> None, app |-> None,
           found |-> FALSE, quiet |-> FALSE, raised |-> FALSE]

\* No call concerning user u is in progress in any process.
Quiescent(u) == \A q \in Procs : pc[q] = "idle" \/ call[q].user # u

ug_vars == <<groups, r_user, r_counter, pc, call, nops, new_users,
             last_set, done, first_ret, first_apps, obtained>>
ck_vars == <<config, rules, r_msg, ck_pc, ck_call, corr, ck_last>>
w_vars == <<w_config, w_pc, w_error, w_router, w_publishers, w_consumers,
           w_served, w_last>>
vars == <<ug_vars, ck_vars, w_vars>>

UGInit ==
    /\ groups \in GroupMappings
    /\ r_user = [u \in Users |-> None]
    /\ r_counter = 0
    /\ pc = [p \in Procs |-> "idle"]
    /\ call = [p \in Procs |-> NoCall]
    /\ nops = 0
    /\ new_users = <<>>
    /\ last_set = [u \in Users |-> None]
    /\ done = NoDone
    /\ first_ret = [u \in Users |-> None]
    /\ first_apps = [u \in Users |-> {}]
    /\ obtained = <<>>

\* get_group_for_user, first store operation: r_server.get(user_key) and the
\* test of its reply.  op is "lookup" for a bare get_group_for_user call and
\* "dispatch" for dispatch_inbound_message of a message from user u.
UGGet(p, op, u) ==
    /\ pc[p] = "idle"
    /\ nops' = nops + 1
    /\ LET group == r_user[u]
       IN  IF NeedsAssignment(group)
           THEN /\ pc' = [pc EXCEPT ![p] = "incr"]
                /\ call' = [call EXCEPT ![p] =
                       [op |-> op, user |-> u, group |-> None,
                        found |-> FALSE, quiet |-> FALSE]]
                /\ new_users' = Append(new_users, u)
           ELSE /\ pc' = [pc EXCEPT ![p] = "ret"]
                /\ call' = [call EXCEPT ![p] =
                       [op |-> op, user |-> u, group |-> group,
                        found |-> TRUE, quiet |-> Quiescent(u)]]
                /\ new_users' = new_users
    /\ UNCHANGED <<groups, r_user, r_counter, last_set, done, first_ret,
                   first_apps, obtained, ck_vars, w_vars>>

\* get_group_for_user returning the new group without writing it.
UGIncrNoSet(p) ==
    /\ pc[p] = "incr"
    /\ r_counter' = incr(r_counter)
    /\ obtained' = Append(obtained, get_counter(r_counter'))
    /\ call' = [call EXCEPT ![p].group =
                    get_next_group(get_counter(r_counter'))[1]]
    /\ pc' = [pc EXCEPT ![p] = "ret"]
    /\ UNCHANGED <<groups, r_user, nops, new_users, last_set, done, first_ret,
                   first_apps, ck_vars, w_vars>>

\* get_next_group: the atomic increment of the counter and the choice of the
\* group from it.
UGIncr(p) ==
    /\ pc[p] = "incr"
    /\ r_counter' = incr(r_counter)
    /\ obtained' = Append(obtained, get_counter(r_counter'))
    /\ call' = [call EXCEPT ![p].group =
                    get_next_group(get_counter(r_counter'))[1]]
    /\ pc' = [pc EXCEPT ![p] = "set"]
    /\ UNCHANGED <<groups, r_user, nops, new_users, last_set, done, first_ret,
                   first_apps, ck_vars, w_vars>>

\* The set sent under a key that no lookup reads.
UGSetLost(p) ==
    /\ pc[p] = "set"
    /\ pc' = [pc EXCEPT ![p] = "ret"]
    /\ UNCHANGED <<groups, r_user, r_counter, call, nops, new_users, last_set,
                   done, first_ret, first_apps, obtained, ck_vars, w_vars>>

\* r_server.set(user_key, group)
UGSet(p) ==
    /\ pc[p] = "set"
    /\ r_user' = [r_user EXCEPT ![call[p].user] = call[p].group]
    /\ last_set' = [last_set EXCEPT ![call[p].user] = call[p].group]
    /\ pc' = [pc EXCEPT ![p] = "ret"]
    /\ UNCHANGED <<groups, r_counter, call, nops, new_users, done, first_ret,
                   first_apps, obtained, ck_vars, w_vars>>

\* get_group_for_user returns; dispatch_inbound_message then publishes the
\* message to the app of the group.
UGReturn(p) ==
    /\ pc[p] = "ret"
    /\ LET out == IF call[p].op = "dispatch" THEN UGPublish(call[p].group)
                  ELSE [app |-> None, raised |-> FALSE]
           u == call[p].user
       IN  /\ done' = [op |-> call[p].op, user |-> u,
                     group |-> call[p].group, app |-> out.app,
                     found |-> call[p].found, quiet |-> call[p].quiet,
                     raised |-> out.raised]
           /\ first_ret' = IF first_ret[u] = None
                           THEN [first_ret EXCEPT ![u] = call[p].group]
                           ELSE first_ret
           /\ first_apps' =
                  IF call[p].op = "dispatch" /\ ~call[p].found
                  THEN [first_apps EXCEPT ![u] = @ \cup {out.app}]
                  ELSE first_apps
    /\ pc' = [pc EXCEPT ![p] = "idle"]
    /\ call' = [call EXCEPT ![p] = NoCall]
    /\ UNCHANGED <<groups, r_user, r_counter, nops, new_users, last_set,
                   obtained, ck_vars, w_vars>>

\* ------------------------------------------------------------------------
\* ContentKeywordRouter
\* ------------------------------------------------------------------------

\* str.lower() on character codes: 11..19 are the upper-case forms of 1..9.
Lower(s) == [i \in 1..Len(s) |-> IF s[i] >= 11 THEN s[i] - 10 ELSE s[i]]

\* str.startswith
StartsWith(s, prefix) ==
    /\ Len(prefix) <= Len(s)
    /\ \A i \in 1..Len(prefix) : s[i] = prefix[i]

\* vumi.utils.get_first_word: the first space-delimited token of the
\* content, the empty string when there is no content.
RECURSIVE get_first_word(_)
get_first_word(content) ==
    IF content = None THEN <<>>
    ELSE IF content = <<>> THEN <<>>
    ELSE IF Head(content) = 0 THEN <<>>
    ELSE <<Head(content)>> \o get_first_word(Tail(content))

\* The explicit rules of the configurations: "A" -> app1; "a" with
\* to_addr "to1" -> app2; "a" with from_addr prefix "a" -> app1.
RuleUpper == [app |-> "app1", keyword |-> <<11>>]
RuleToAddr == [app |-> "app2", keyword |-> <<1>>, to_addr |-> "to1"]
RulePrefix == [app |-> "app1", keyword |-> <<1>>, prefix |-> <<1>>]

\* The routing parts of the configurations explored.  keyword_mappings is
\* the sequence of the dict's (transport_name, keyword) items.
RoutingConfigs ==
    { [rules |-> <<RuleUpper, RuleToAddr, RulePrefix>>,
       keyword_mappings |-> << <<"app2", <<12>> >>, <<"app3", <<1>> >> >>,
       fallback_application |-> None],
      [rules |-> <<RuleUpper, RuleToAddr, RulePrefix>>,
       keyword_mappings |-> << <<"app2", <<12>> >>, <<"app3", <<1>> >> >>,
       fallback_application |-> "app3"],
      [rules |-> <<RulePrefix, RuleToAddr>>,
       keyword_mappings |-> << >>,
       fallback_application |-> None],
      [rules |-> << >>,
       keyword_mappings |-> << <<"app1", <<1, 12>> >> >>,
       fallback_application |-> "app2"] }

\* transport_mappings: from_addr -> transport name.
TransportMappings == (<<5>> :> "transport1") @@ (<<6>> :> "transport2")

CKConfig(rc, ttl) ==
    [rules |-> rc.rules,
     keyword_mappings |-> rc.keyword_mappings,
     fallback_application |-> rc.fallback_application,
     transport_mappings |-> TransportMappings,
     expire_routing_memory |-> ttl]

\* The messages dispatched.
Contents == {None, <<>>, <<1>>, <<11, 0, 2>>, <<2>>, <<12, 0>>, <<3>>,
             <<1, 12>>, <<1, 0, 1>>}
InboundMessages ==
    [content : Contents, to_addr : {"to1", "to2"},
     from_addr : {<<1, 2>>, <<2, 1>>}]
MessageIds == {"m1", "m2"}
OutboundMessages ==
    [from_addr : {<<5>>}, message_id : MessageIds,
     transport_name : {"app1", "app2", "transport1"}]
    \cup {[from_addr |-> <<7>>, message_id |-> "m1",
            transport_name |-> "app1"]}
\* The exposed apps a message may come from: an application stamps its own
\* name on the messages it originates (transport_name "app1" comes from
\* app1, "app2" from app2); a reply carries the transport_name of the
\* inbound message it answers, which this router passes on unchanged
\* ("transport1", here in a reply of app1).
SendersOf(msg) ==
    IF msg.transport_name \in exposed_names THEN {msg.transport_name}
    ELSE {"app1"}
Events == [user_message_id : MessageIds]

\* setup_routing without the lower-casing of the explicit rules' keywords.
setup_rules_verbatim(cfg) ==
    cfg.rules \o
    [i \in 1..Len(cfg.keyword_mappings) |->
        [app |-> cfg.keyword_mappings[i][1],
         keyword |-> Lower(cfg.keyword_mappings[i][2])]]

\* setup_routing: self.rules is the explicit rules, keywords lower-cased,
\* followed by one rule per item of keyword_mappings.
setup_rules(cfg) ==
    [i \in 1..Len(cfg.rules) |->
        [cfg.rules[i] EXCEPT !.keyword = Lower(@)]] \o
    [i \in 1..Len(cfg.keyword_mappings) |->
        [app |-> cfg.keyword_mappings[i][1],
         keyword |-> Lower(cfg.keyword_mappings[i][2])]]

fallback_application == config.fallback_application
transport_mappings == config.transport_mappings
expire_routing_timeout == config.expire_routing_memory

is_msg_matching_routing_rules(keyword, msg, rule) ==
    /\ keyword = rule.keyword
    /\ ("to_addr" \notin DOMAIN rule) \/ (msg.to_addr = rule.to_addr)
    /\ ("prefix" \notin DOMAIN rule) \/ StartsWith(msg.from_addr, rule.prefix)

\* The rule loop of dispatch_inbound_message from rule i on: the apps
\* published to, whether a rule matched, and whether a publish raised
\* (KeyError of exposed_publisher[name]), which ends the loop.
RECURSIVE RuleLoop(_, _, _)
RuleLoop(keyword, msg, i) ==
    IF i > Len(rules)
    THEN [publishes |-> <<>>, matched |-> FALSE, raised |-> FALSE]
    ELSE IF is_msg_matching_routing_rules(keyword, msg, rules[i])
    THEN IF rules[i].app \in exposed_names
         THEN LET rest == RuleLoop(keyword, msg, i + 1)
              IN  [publishes |-> <<rules[i].app>> \o rest.publishes,
                   matched |-> TRUE, raised |-> rest.raised]
         ELSE [publishes |-> <<>>, matched |-> TRUE, raised |-> TRUE]
    ELSE RuleLoop(keyword, msg, i + 1)

\* The rule loop stopping at the first rule that matches.
RECURSIVE RuleLoopFirstMatch(_, _, _)
RuleLoopFirstMatch(keyword, msg, i) ==
    IF i > Len(rules)
    THEN [publishes |-> <<>>, matched |-> FALSE, raised |-> FALSE]
    ELSE IF is_msg_matching_routing_rules(keyword, msg, rules[i])
    THEN [publishes |-> <<rules[i].app>>, matched |-> TRUE,
          raised |-> ~(rules[i].app \in exposed_names)]
    ELSE RuleLoopFirstMatch(keyword, msg, i + 1)

\* The end of dispatch_inbound_message with the fallback application also
\* served when a rule matched.
inbound_fallback_always(loop) ==
    IF loop.raised
    THEN [publishes |-> loop.publishes, diags |-> 0, raised |-> TRUE]
    ELSE IF fallback_application # None
    THEN [publishes |-> loop.publishes \o <<fallback_application>>,
          diags |-> 0,
          raised |-> ~(fallback_application \in exposed_names)]
    ELSE [publishes |-> loop.publishes, diags |-> 0, raised |-> FALSE]

\* The end of dispatch_inbound_message ("if not matched"): the fallback
\* application, or the error log.
inbound_fallback(loop) ==
    IF loop.raised
    THEN [publishes |-> loop.publishes, diags |-> 0, raised |-> TRUE]
    ELSE IF ~loop.matched
    THEN IF fallback_application # None
         THEN IF fallback_application \in exposed_names
              THEN [publishes |-> <<fallback_application>>, diags |-> 0,
                    raised |-> FALSE]
              ELSE [publishes |-> <<>>, diags |-> 0, raised |-> TRUE]
         ELSE [publishes |-> <<>>, diags |-> 1, raised |-> FALSE]
    ELSE [publishes |-> loop.publishes, diags |-> 0, raised |-> FALSE]

\* The rule loop left at the first match (first-match-wins).
inbound_rules_first_match(keyword, msg) == RuleLoopFirstMatch(keyword, msg, 1)

\* The rule loop of dispatch_inbound_message over all of self.rules.
inbound_rules(keyword, msg) == RuleLoop(keyword, msg, 1)

dispatch_inbound_message(msg) ==
    inbound_fallback(inbound_rules(Lower(get_first_word(msg.content)), msg))

\* ---- the store: redis get, set and expire on the message keys ----
NoExpiry == -1
Absent == [present |-> FALSE, name |-> None, ttl |-> NoExpiry]

redis_get(store, key) ==
    IF store[key].present THEN store[key].name ELSE None

redis_set(store, key, value) ==
    [store EXCEPT ![key] = [present |-> TRUE, name |-> value,
                            ttl |-> NoExpiry]]

redis_expire(store, key, seconds) ==
    IF ~store[key].present THEN store
    ELSE IF seconds <= 0 THEN [store EXCEPT ![key] = Absent]
    ELSE [store EXCEPT ![key].ttl = seconds]

\* One second passes in the store: times to live run down and the entries
\* whose time is over are removed.
redis_tick(store) ==
    [k \in DOMAIN store |->
        IF store[k].present /\ store[k].ttl = 1 THEN Absent
        ELSE IF store[k].present /\ store[k].ttl > 1
        THEN [store[k] EXCEPT !.ttl = @ - 1]
        ELSE store[k]]

\* The try/except of dispatch_inbound_event left out: the KeyError of
\* exposed_event_publisher[name] leaves the call.
publish_event_uncaught(name) ==
    IF name \in exposed_names
    THEN [publishes |-> <<name>>, diags |-> 0, raised |-> FALSE]
    ELSE [publishes |-> <<>>, diags |-> 0, raised |-> TRUE]

\* The try/except of dispatch_inbound_event around publish_exposed_event.
publish_event(name) ==
    IF name \in exposed_names
    THEN [publishes |-> <<name>>, diags |-> 0, raised |-> FALSE]
    ELSE [publishes |-> <<>>, diags |-> 1, raised |-> FALSE]

\* dispatch_inbound_event sending an event whose entry is missing to the
\* fallback application (or the first application).
event_route_or_default(name) ==
    IF FalsyName(name)
    THEN IF fallback_application # None THEN fallback_application
         ELSE "app1"
    ELSE name

\* The name dispatch_inbound_event publishes to: the reply of the store,
\* whether or not it is missing.
event_route(name) == name

\* dispatch_inbound_event giving the entry it found a new time to live.
dispatch_inbound_event_refresh(store, msg) ==
    LET name == redis_get(store, msg.user_message_id)
        missing == IF FalsyName(name) THEN 1 ELSE 0
        pub == publish_event(event_route(name))
    IN  [name |-> name, publishes |-> pub.publishes,
         diags |-> missing + pub.diags, raised |-> pub.raised,
         store |-> redis_expire(store, msg.user_message_id,
                                expire_routing_timeout)]

\* dispatch_inbound_event: one get on the store, the error log of a missing
\* entry, the publish; store is the store as the call leaves it.
dispatch_inbound_event(store, msg) ==
    LET name == redis_get(store, msg.user_message_id)
        missing == IF FalsyName(name) THEN 1 ELSE 0
        pub == publish_event(event_route(name))
    IN  [name |-> name, publishes |-> pub.publishes,
         diags |-> missing + pub.diags, raised |-> pub.raised,
         store |-> store]

NoMsg == [none |-> TRUE]
NoCKCall == [msg |-> NoMsg, sender |-> None]
NoCorr == [sender |-> None, age |-> 0]

Outcome(op, msg, name, publishes, diags, raised, sender) ==
    [op |-> op, msg |-> msg, name |-> name, publishes |-> publishes,
     diags |-> diags, raised |-> raised, sender |-> sender]
\* The last step was no dispatch call (a store operation of an outbound
\* dispatch, a crash, or the passing of time).
NoOutcome == Outcome(None, NoMsg, None, <<>>, 0, FALSE, None)

\* The state after setup_routing under configuration cfg, the store empty.
CKSetup(cfg) ==
    /\ config = cfg
    /\ rules = setup_rules(cfg)
    /\ r_msg = [m \in MessageIds |-> Absent]
    /\ ck_pc = [p \in CKProcs |-> "idle"]
    /\ ck_call = [p \in CKProcs |-> NoCKCall]
    /\ corr = [m \in MessageIds |-> NoCorr]
    /\ ck_last = NoOutcome

\* dispatch_inbound_message(msg), in any process sharing the store that is
\* not inside another dispatch.
CKInbound(msg) ==
    /\ LET out == dispatch_inbound_message(msg)
       IN  ck_last' = Outcome("inbound", msg, None, out.publishes, out.diags,
                              out.raised, None)
    /\ UNCHANGED <<config, rules, r_msg, ck_pc, ck_call, corr, ug_vars,
                   w_vars>>

\* dispatch_inbound_event(msg), in any process sharing the store that is
\* not inside another dispatch.
CKEvent(msg) ==
    /\ LET out == dispatch_inbound_event(r_msg, msg)
       IN  /\ ck_last' = Outcome("event", msg, out.name, out.publishes,
                                 out.diags, out.raised,
                                 corr[msg.user_message_id].sender)
           /\ r_msg' = out.store
    /\ UNCHANGED <<config, rules, ck_pc, ck_call, corr, ug_vars, w_vars>>

\* The transport lookup falling back to the first transport for a
\* from_addr that has no mapping.
outbound_transport_or_first(msg) ==
    IF msg.from_addr \in DOMAIN transport_mappings
    THEN transport_mappings[msg.from_addr] ELSE "transport1"

\* self.transport_mappings.get(msg['from_addr'])
outbound_transport(msg) ==
    IF msg.from_addr \in DOMAIN transport_mappings
    THEN transport_mappings[msg.from_addr] ELSE None

\* dispatch_outbound_message(msg) of a message consumed from app's outbound
\* endpoint, up to the publish to the transport.
CKOutPublish(p, app, msg) ==
    /\ ck_pc[p] = "idle"
    /\ LET transport_name == outbound_transport(msg)
       IN  IF transport_name = None
           THEN /\ ck_last' = Outcome("outbound", msg, None, <<>>, 1, FALSE,
                                      None)
                /\ UNCHANGED <<ck_pc, ck_call>>
           ELSE IF transport_name \notin transport_names
           THEN /\ ck_last' = Outcome("outbound", msg, None, <<>>, 0, TRUE,
                                      None)
                /\ UNCHANGED <<ck_pc, ck_call>>
           ELSE /\ ck_last' = Outcome("outbound", msg, None,
                                      <<transport_name>>, 0, FALSE, None)
                /\ ck_pc' = [ck_pc EXCEPT ![p] = "set"]
                /\ ck_call' = [ck_call EXCEPT ![p] =
                                   [msg |-> msg, sender |-> app]]
    /\ UNCHANGED <<config, rules, r_msg, corr, ug_vars, w_vars>>

\* r_server.set(message_key, msg['transport_name'])
CKOutSet(p) ==
    /\ ck_pc[p] = "set"
    /\ LET m == ck_call[p].msg.message_id
       IN  /\ r_msg' = redis_set(r_msg, m, ck_call[p].msg.transport_name)
           /\ corr' = [corr EXCEPT ![m] =
                  [sender |-> ck_call[p].sender, age |-> 0]]
    /\ ck_pc' = [ck_pc EXCEPT ![p] = "expire"]
    /\ ck_last' = NoOutcome
    /\ UNCHANGED <<config, rules, ck_call, ug_vars, w_vars>>

\* r_server.expire(message_key, self.expire_routing_timeout)
CKOutExpire(p) ==
    /\ ck_pc[p] = "expire"
    /\ r_msg' = redis_expire(r_msg, ck_call[p].msg.message_id,
                             expire_routing_timeout)
    /\ ck_pc' = [ck_pc EXCEPT ![p] = "idle"]
    /\ ck_call' = [ck_call EXCEPT ![p] = NoCKCall]
    /\ ck_last' = NoOutcome
    /\ UNCHANGED <<config, rules, corr, ug_vars, w_vars>>

\* The process stops inside dispatch_outbound_message, after the publish
\* and before one of its store operations, and is started again.
CKCrash(p) ==
    /\ ck_pc[p] \in {"set", "expire"}
    /\ ck_pc' = [ck_pc EXCEPT ![p] = "idle"]
    /\ ck_call' = [ck_call EXCEPT ![p] = NoCKCall]
    /\ ck_last' = NoOutcome
    /\ UNCHANGED <<config, rules, r_msg, corr, ug_vars, w_vars>>

\* One second passes.
CKTick ==
    /\ r_msg' = redis_tick(r_msg)
    /\ corr' = [m \in MessageIds |->
                   IF /\ corr[m].sender # None
                      /\ corr[m].age <= expire_routing_timeout
                   THEN [corr[m] EXCEPT !.age = @ + 1]
                   ELSE corr[m]]
    /\ ck_last' = NoOutcome
    /\ UNCHANGED <<config, rules, ck_pc, ck_call, ug_vars, w_vars>>

\* ------------------------------------------------------------------------
\* BaseDispatchWorker, SimpleDispatchRouter, ToAddrRouter and
\* FromAddrMultiplexRouter
\* ------------------------------------------------------------------------

\* ---- regular expressions (Python's re) over character codes ----
ReAny == 20     \* "."
ReEnd == 21     \* "$"
ReOpen == 22    \* "(" with no ")" after it

\* re.compile(pattern) returns; it raises re.error on an unbalanced
\* parenthesis.
re_compile(pattern) == \A i \in 1..Len(pattern) : pattern[i] # ReOpen

\* regex.fullmatch(s): the pattern must consume all of s.
RECURSIVE re_fullmatch(_, _)
re_fullmatch(pattern, s) ==
    IF pattern = <<>> THEN s = <<>>
    ELSE IF Head(pattern) = ReEnd
    THEN s = <<>> /\ re_fullmatch(Tail(pattern), s)
    ELSE IF s = <<>> THEN FALSE
    ELSE /\ Head(pattern) = ReAny \/ Head(pattern) = Head(s)
         /\ re_fullmatch(Tail(pattern), Tail(s))

\* regex.match(s): the pattern matches s from position zero on; what
\* follows the match in s is not looked at.
RECURSIVE re_match(_, _)
re_match(pattern, s) ==
    IF pattern = <<>> THEN TRUE
    ELSE IF Head(pattern) = ReEnd
    THEN s = <<>> /\ re_match(Tail(pattern), s)
    ELSE IF s = <<>> THEN FALSE
    ELSE /\ Head(pattern) = ReAny \/ Head(pattern) = Head(s)
         /\ re_match(Tail(pattern), Tail(s))

\* ---- configurations ----
EmptyDict == [k \in {} |-> None]

WBaseConfig ==
    [router_class |-> None,
     transport_names |-> <<"transport1", "transport2">>,
     exposed_names |-> <<"app1", "app2", "app3">>,
     route_mappings |-> EmptyDict,
     transport_mappings |-> EmptyDict,
     toaddr_mappings |-> <<>>,
     fromaddr_mappings |-> EmptyDict,
     rules |-> <<>>,
     keyword_mappings |-> <<>>,
     fallback_application |-> None,
     expire_routing_memory |-> 1]

SimpleConfigs ==
    { [WBaseConfig EXCEPT
          !.router_class = "SimpleDispatchRouter",
          !.route_mappings = ("transport1" :> <<"app1", "app2">>) @@
                             ("transport2" :> <<"app3">>),
          !.transport_mappings = ("app1" :> "transport2")],
      [WBaseConfig EXCEPT
          !.router_class = "SimpleDispatchRouter",
          !.route_mappings = ("transport1" :> <<"app2">>) @@
                             ("transport2" :> <<>>)] }

\* toaddr_mappings is the sequence of the dict's (name, pattern) items:
\* "a", "ab$", ".b"; and one with a pattern that does not compile.
ToAddrConfigs ==
    { [WBaseConfig EXCEPT
          !.router_class = "ToAddrRouter",
          !.toaddr_mappings = << <<"app1", <<1>> >>,
                                 <<"app2", <<1, 2, ReEnd>> >>,
                                 <<"app3", <<ReAny, 2>> >> >>],
      [WBaseConfig EXCEPT
          !.router_class = "ToAddrRouter",
          !.toaddr_mappings = << <<"app1", <<1>> >>,
                                 <<"app2", <<ReOpen, 1>> >> >>] }

FromAddrMappings == (<<5>> :> "transport1") @@ (<<6>> :> "transport2")

\* One exposed name, and the rejected cases: none, two.
FromAddrConfigs ==
    { [WBaseConfig EXCEPT
          !.router_class = "FromAddrMultiplexRouter",
          !.exposed_names = e,
          !.fromaddr_mappings = FromAddrMappings] :
      e \in { <<"app1">>, << >>, <<"app1", "app2">> } }

\* A keyword configuration, and two with a rule lacking app or keyword.
KeywordConfigs ==
    { [WBaseConfig EXCEPT
          !.router_class = "ContentKeywordRouter",
          !.rules = r,
          !.keyword_mappings = << <<"app1", <<1, 12>> >> >>,
          !.fallback_application = "app2",
          !.transport_mappings = TransportMappings] :
      r \in { << >>, << [keyword |-> <<1>>] >>,
              << RulePrefix, [app |-> "app1"] >> } }
    \cup
    \* destinations that are no endpoint of the worker: app9, transport9
    { [WBaseConfig EXCEPT
          !.router_class = "ContentKeywordRouter",
          !.rules = << [app |-> "app9", keyword |-> <<1>>], RulePrefix >>,
          !.fallback_application = "app9",
          !.transport_mappings = (<<5>> :> "transport9")] }

WConfigs ==
    SimpleConfigs \cup ToAddrConfigs \cup FromAddrConfigs \cup KeywordConfigs

\* ---- messages ----
ToAddrs == { <<1>>, <<1, 2>>, <<1, 2, 3>>, <<2, 2>>, <<3>> }
WMessages ==
    [transport_name : {"transport1", "transport2", "app1"},
     to_addr : ToAddrs, from_addr : {<<5>>, <<7>>}]

\* ---- publishing ----
Endpoint(kind, name) == [kind |-> kind, name |-> name]
Published(kind, name, msg) ==
    [kind |-> kind, name |-> name, transport_name |-> msg.transport_name]
Range(seq) == {seq[i] : i \in 1..Len(seq)}

Result(publishes, diags, raised) ==
    [publishes |-> publishes, diags |-> diags, raised |-> raised]
\* The call raised before publishing anything (a KeyError).
Raised == Result(<<>>, 0, TRUE)

\* ---- setup_routing of each router class ----
RouterClass == w_config.router_class
HasPublisher(kind, name) == Endpoint(kind, name) \in w_publishers

\* self._router before setup_router has set it.
NoRouter == [class |-> None]

\* What self._router is after BaseDispatchRouter.__init__ ran setup_routing,
\* or the exception setup_routing raised.
setup_routing(cfg) ==
    CASE cfg.router_class \in {"SimpleDispatchRouter",
                               "UserGroupingRouter"} ->
             [error |-> None, router |-> [class |-> cfg.router_class]]
      [] cfg.router_class = "ToAddrRouter" ->
             IF \A i \in 1..Len(cfg.toaddr_mappings) :
                    re_compile(cfg.toaddr_mappings[i][2])
             THEN [error |-> None,
                   router |-> [class |-> cfg.router_class,
                               mappings |-> cfg.toaddr_mappings]]
             ELSE [error |-> "re.error", router |-> NoRouter]
      [] cfg.router_class = "FromAddrMultiplexRouter" ->
             IF Len(cfg.exposed_names) # 1
             THEN [error |-> "ConfigError", router |-> NoRouter]
             ELSE [error |-> None,
                   router |-> [class |-> cfg.router_class,
                               exposed_name |-> cfg.exposed_names[1]]]
      [] cfg.router_class = "ContentKeywordRouter" ->
             IF \E i \in 1..Len(cfg.rules) :
                    \/ "keyword" \notin DOMAIN cfg.rules[i]
                    \/ "app" \notin DOMAIN cfg.rules[i]
             THEN [error |-> "ConfigError", router |-> NoRouter]
             ELSE [error |-> None, router |-> [class |-> cfg.router_class]]

\* ---- SimpleDispatchRouter ----
\* "for name in names: publisher[name].publish_message(msg)": the publishes
\* made from names[i] on, ended by the KeyError of a missing publisher.
RECURSIVE publish_each(_, _, _, _)
publish_each(names, kind, msg, i) ==
    IF i > Len(names) THEN Result(<<>>, 0, FALSE)
    ELSE IF ~HasPublisher(kind, names[i]) THEN Raised
    ELSE LET rest == publish_each(names, kind, msg, i + 1)
         IN  Result(<<Published(kind, names[i], msg)>> \o rest.publishes,
                    0, rest.raised)

\* Only the first of the names listed for the transport is served.
SimpleDispatchRouter_dispatch_first(kind, msg) ==
    IF msg.transport_name \notin DOMAIN w_config.route_mappings THEN Raised
    ELSE LET names == w_config.route_mappings[msg.transport_name]
         IN  publish_each(IF names = <<>> THEN names ELSE <<names[1]>>,
                          kind, msg, 1)

\* dispatch_inbound_message (kind "inbound") and dispatch_inbound_event
\* (kind "event"), which differ in the publishers they use.
SimpleDispatchRouter_dispatch_inbound(kind, msg) ==
    IF msg.transport_name \notin DOMAIN w_config.route_mappings THEN Raised
    ELSE publish_each(w_config.route_mappings[msg.transport_name], kind,
                      msg, 1)

\* dispatch_outbound_message without the remap through transport_mappings.
SimpleDispatchRouter_dispatch_outbound_direct(msg) ==
    IF HasPublisher("outbound", msg.transport_name)
    THEN Result(<<Published("outbound", msg.transport_name, msg)>>, 0, FALSE)
    ELSE Raised

SimpleDispatchRouter_dispatch_outbound_message(msg) ==
    LET name == IF msg.transport_name \in DOMAIN w_config.transport_mappings
                THEN w_config.transport_mappings[msg.transport_name]
                ELSE msg.transport_name
    IN  IF HasPublisher("outbound", name)
        THEN Result(<<Published("outbound", name, msg)>>, 0, FALSE)
        ELSE Raised

\* ---- ToAddrRouter ----
\* The loop with the patterns matched against the whole of to_addr.
RECURSIVE ToAddrLoopFull(_, _)
ToAddrLoopFull(msg, i) ==
    IF i > Len(w_router.mappings) THEN Result(<<>>, 0, FALSE)
    ELSE LET name == w_router.mappings[i][1]
             regex == w_router.mappings[i][2]
         IN  IF ~re_fullmatch(regex, msg.to_addr)
             THEN ToAddrLoopFull(msg, i + 1)
             ELSE IF ~HasPublisher("inbound", name) THEN Raised
             ELSE LET rest == ToAddrLoopFull(msg, i + 1)
                  IN  Result(<<Published("inbound", name, msg)>>
                                 \o rest.publishes, 0, rest.raised)

\* The loop of dispatch_inbound_message over self.mappings, from mapping i
\* on: a publish per mapping whose regex matches; the KeyError of a missing
\* publisher ends it.
RECURSIVE ToAddrLoop(_, _)
ToAddrLoop(msg, i) ==
    IF i > Len(w_router.mappings) THEN Result(<<>>, 0, FALSE)
    ELSE LET name == w_router.mappings[i][1]
             regex == w_router.mappings[i][2]
         IN  IF ~re_match(regex, msg.to_addr) THEN ToAddrLoop(msg, i + 1)
             ELSE IF ~HasPublisher("inbound", name) THEN Raised
             ELSE LET rest == ToAddrLoop(msg, i + 1)
                  IN  Result(<<Published("inbound", name, msg)>>
                                 \o rest.publishes, 0, rest.raised)

\* The patterns matched against the whole of to_addr.
ToAddrRouter_dispatch_fullmatch(msg) == ToAddrLoopFull(msg, 1)

ToAddrRouter_dispatch_inbound_message(msg) == ToAddrLoop(msg, 1)

\* "pass"
ToAddrRouter_dispatch_inbound_event(msg) == Result(<<>>, 0, FALSE)

\* ---- FromAddrMultiplexRouter ----
\* _handle_inbound publishing the message as it came.
handle_inbound_as_is(msg, kind) ==
    IF ~HasPublisher(kind, w_router.exposed_name) THEN Raised
    ELSE Result(<<Published(kind, w_router.exposed_name, msg)>>, 0, FALSE)

\* dispatch_inbound_message and dispatch_inbound_event: the publisher of the
\* exposed name is looked up, then _handle_inbound rewrites transport_name
\* and publishes.
handle_inbound(msg, kind) ==
    IF ~HasPublisher(kind, w_router.exposed_name) THEN Raised
    ELSE Result(<<Published(kind, w_router.exposed_name,
                            [msg EXCEPT !.transport_name =
                                            w_router.exposed_name])>>,
                0, FALSE)

FromAddrMultiplexRouter_dispatch_outbound_message(msg) ==
    IF msg.from_addr \notin DOMAIN w_config.fromaddr_mappings THEN Raised
    ELSE LET name == w_config.fromaddr_mappings[msg.from_addr]
         IN  IF ~HasPublisher("outbound", name) THEN Raised
             ELSE Result(<<Published("outbound", name,
                                     [msg EXCEPT !.transport_name = name])>>,
                         0, FALSE)

\* ---- BaseDispatchWorker.dispatch_*: the call on self._router ----
router_dispatch_inbound_message(msg) ==
    CASE w_router = NoRouter -> Raised
      [] RouterClass = "SimpleDispatchRouter" ->
             SimpleDispatchRouter_dispatch_inbound("inbound", msg)
      [] RouterClass = "ToAddrRouter" ->
             ToAddrRouter_dispatch_inbound_message(msg)
      [] RouterClass = "FromAddrMultiplexRouter" ->
             handle_inbound(msg, "inbound")

router_dispatch_inbound_event(msg) ==
    CASE w_router = NoRouter -> Raised
      [] RouterClass \in {"SimpleDispatchRouter", "UserGroupingRouter"} ->
             SimpleDispatchRouter_dispatch_inbound("event", msg)
      [] RouterClass = "ToAddrRouter" ->
             ToAddrRouter_dispatch_inbound_event(msg)
      [] RouterClass = "FromAddrMultiplexRouter" ->
             handle_inbound(msg, "event")

router_dispatch_outbound_message(msg) ==
    CASE w_router = NoRouter -> Raised
      [] RouterClass \in {"SimpleDispatchRouter", "ToAddrRouter",
                          "UserGroupingRouter"} ->
             SimpleDispatchRouter_dispatch_outbound_message(msg)
      [] RouterClass = "FromAddrMultiplexRouter" ->
             FromAddrMultiplexRouter_dispatch_outbound_message(msg)

WOutcome(op, msg, out) ==
    [op |-> op, msg |-> msg, publishes |-> out.publishes,
     diags |-> out.diags, raised |-> out.raised]
NoWOutcome == WOutcome(None, NoMsg, Result(<<>>, 0, FALSE))

\* A worker that has not been started.
WQuiet ==
    /\ w_config = WBaseConfig
    /\ w_pc = 1
    /\ w_error = None
    /\ w_router = NoRouter
    /\ w_publishers = {}
    /\ w_consumers = {}
    /\ w_served = 0
    /\ w_last = NoWOutcome

\* The router's variables while the other router is the one running.
UGQuiet ==
    /\ groups = (<<1>> :> "app1") @@ (<<2>> :> "app2")
    /\ r_user = [u \in Users |-> None]
    /\ r_counter = 0
    /\ pc = [p \in Procs |-> "idle"]
    /\ call = [p \in Procs |-> NoCall]
    /\ nops = 0
    /\ new_users = <<>>
    /\ last_set = [u \in Users |-> None]
    /\ done = NoDone
    /\ first_ret = [u \in Users |-> None]
    /\ first_apps = [u \in Users |-> {}]
    /\ obtained = <<>>

CKQuiet ==
    CKSetup(CKConfig(CHOOSE rc \in RoutingConfigs :
                         rc.rules = <<>>, 1))

\* Inbound messages under each routing configuration.
CKInInit ==
    /\ UGQuiet
    /\ WQuiet
    /\ \E rc \in RoutingConfigs : CKSetup(CKConfig(rc, 1))

CKInNext == \E msg \in InboundMessages : CKInbound(msg)

\* Outbound messages and their events, with each time to live.
CKInit ==
    /\ UGQuiet
    /\ WQuiet
    /\ \E ttl \in 1..MaxTTL :
           CKSetup(CKConfig(CHOOSE rc \in RoutingConfigs :
                                rc.rules = <<>>, ttl))

CKNext ==
    \/ \E msg \in Events : CKEvent(msg)
    \/ \E p \in CKProcs, msg \in OutboundMessages :
          \E app \in SendersOf(msg) : CKOutPublish(p, app, msg)
    \/ \E p \in CKProcs : CKOutSet(p)
    \/ \E p \in CKProcs : CKOutExpire(p)
    \/ \E p \in CKProcs : CKCrash(p)
    \/ CKTick

SpecCKIn == CKInInit /\ [][CKInNext]_vars
SpecCK == CKInit /\ [][CKNext]_vars

\* Inbound messages arriving among the outbound messages and events: one
\* that matches the keyword rule and one that goes to the fallback.
FrameInbound ==
    {m \in InboundMessages :
        /\ m.to_addr = "to1" /\ m.from_addr = <<1, 2>>
        /\ m.content \in {<<1, 12>>, <<2>>}}

\* The outbound messages among them: of app1, one per message id, and one
\* with an unmapped from_addr.
FrameOutbound == {m \in OutboundMessages : m.transport_name = "app1"}

CKFrameInit ==
    /\ UGQuiet
    /\ WQuiet
    /\ CKSetup(CKConfig(CHOOSE rc \in RoutingConfigs : rc.rules = <<>>,
                        MaxTTL))

CKFrameNext ==
    \/ \E msg \in FrameInbound : CKInbound(msg)
    \/ \E msg \in Events : CKEvent(msg)
    \/ \E p \in CKProcs, msg \in FrameOutbound :
          \E app \in SendersOf(msg) : CKOutPublish(p, app, msg)
    \/ \E p \in CKProcs : CKOutSet(p)
    \/ \E p \in CKProcs : CKOutExpire(p)
    \/ CKTick

SpecCKFrame == CKFrameInit /\ [][CKFrameNext]_vars

\* ---- BaseDispatchWorker.startWorker and the consumers' callbacks ----

\* The order with the consumers subscribed before the router is set up.
startWorker_consumers_first ==
    <<"setup_endpoints", "setup_transport_consumers",
      "setup_exposed_consumers", "setup_router",
      "setup_transport_publishers", "setup_exposed_publishers">>

\* The steps of startWorker, in the order of its yields.
startWorker ==
    <<"setup_endpoints", "setup_router", "setup_transport_publishers",
      "setup_exposed_publishers", "setup_transport_consumers",
      "setup_exposed_consumers">>

TransportNames == Range(w_config.transport_names)
ExposedNames == Range(w_config.exposed_names)

\* The next step of startWorker.  An exception ends startWorker: the steps
\* after it are not run.  setup_endpoints copies the names out of the
\* configuration, where the model reads them.
WStart ==
    /\ w_error = None
    /\ w_pc <= Len(startWorker)
    /\ LET step == startWorker[w_pc]
           r == setup_routing(w_config)
       IN  /\ w_error' = IF step = "setup_router" THEN r.error ELSE None
           /\ w_pc' = IF w_error' = None THEN w_pc + 1 ELSE w_pc
           /\ w_router' = IF step = "setup_router" THEN r.router
                          ELSE w_router
           /\ IF /\ step = "setup_router"
                 /\ r.error = None
                 /\ RouterClass = "ContentKeywordRouter"
              THEN /\ config' =
                          [CKConfig(w_config, w_config.expire_routing_memory)
                              EXCEPT !.transport_mappings =
                                         w_config.transport_mappings]
                   /\ rules' = setup_rules(w_config)
              ELSE UNCHANGED <<config, rules>>
           /\ w_publishers' =
                  CASE step = "setup_transport_publishers" ->
                           w_publishers \cup
                           {Endpoint("outbound", n) : n \in TransportNames}
                    [] step = "setup_exposed_publishers" ->
                           w_publishers \cup
                           {Endpoint(k, n) :
                                k \in {"inbound", "event"},
                                n \in ExposedNames}
                    [] OTHER -> w_publishers
           /\ w_consumers' =
                  CASE step = "setup_transport_consumers" ->
                           w_consumers \cup
                           {Endpoint(k, n) :
                                k \in {"inbound", "event"},
                                n \in TransportNames}
                    [] step = "setup_exposed_consumers" ->
                           w_consumers \cup
                           {Endpoint("outbound", n) : n \in ExposedNames}
                    [] OTHER -> w_consumers
    /\ UNCHANGED <<w_config, w_served, w_last, r_msg, ck_pc, ck_call, corr,
                   ck_last, ug_vars>>

\* A consumer of the given kind is subscribed, so the bus can call back.
Subscribed(kind) == \E c \in w_consumers : c.kind = kind
StoreFree ==
    RouterClass \notin {"ContentKeywordRouter", "UserGroupingRouter"}

\* A transport's inbound consumer calls dispatch_inbound_message(msg).
WInboundMessage(msg) ==
    /\ StoreFree /\ Subscribed("inbound") /\ w_served < MaxServed
    /\ w_last' = WOutcome("inbound", msg,
                          router_dispatch_inbound_message(msg))
    /\ w_served' = w_served + 1
    /\ UNCHANGED <<w_config, w_pc, w_error, w_router, w_publishers,
                   w_consumers, ck_vars, ug_vars>>

\* The router takes dispatch_inbound_event and dispatch_outbound_message
\* from SimpleDispatchRouter or defines them without a store
\* (ContentKeywordRouter's own are CKEvent and CKOutPublish).
EventsStoreFree == RouterClass # "ContentKeywordRouter"

\* A transport's event consumer calls dispatch_inbound_event(msg).
WInboundEvent(msg) ==
    /\ EventsStoreFree /\ Subscribed("event") /\ w_served < MaxServed
    /\ w_last' = WOutcome("event", msg, router_dispatch_inbound_event(msg))
    /\ w_served' = w_served + 1
    /\ UNCHANGED <<w_config, w_pc, w_error, w_router, w_publishers,
                   w_consumers, ck_vars, ug_vars>>

\* An exposed name's outbound consumer calls dispatch_outbound_message(msg).
WOutbound(msg) ==
    /\ EventsStoreFree /\ Subscribed("outbound") /\ w_served < MaxServed
    /\ w_last' = WOutcome("outbound", msg,
                          router_dispatch_outbound_message(msg))
    /\ w_served' = w_served + 1
    /\ UNCHANGED <<w_config, w_pc, w_error, w_router, w_publishers,
                   w_consumers, ck_vars, ug_vars>>

\* The callbacks of a worker whose router is a ContentKeywordRouter.
WKeyword(kind) == RouterClass = "ContentKeywordRouter" /\ Subscribed(kind)

WInit ==
    /\ UGQuiet
    /\ CKQuiet
    /\ w_config \in WConfigs
    /\ w_pc = 1
    /\ w_error = None
    /\ w_router = NoRouter
    /\ w_publishers = {}
    /\ w_consumers = {}
    /\ w_served = 0
    /\ w_last = NoWOutcome

WNext ==
    \/ WStart
    \/ \E msg \in WMessages : WInboundMessage(msg)
    \/ \E msg \in WMessages : WInboundEvent(msg)
    \/ \E msg \in WMessages : WOutbound(msg)
    \/ \E msg \in InboundMessages : WKeyword("inbound") /\ CKInbound(msg)
    \/ \E msg \in Events : WKeyword("event") /\ CKEvent(msg)
    \/ \E msg \in OutboundMessages :
          \E app \in SendersOf(msg) :
              WKeyword("outbound") /\ CKOutPublish(1, app, msg)
    \/ WKeyword("outbound") /\ CKOutSet(1)
    \/ WKeyword("outbound") /\ CKOutExpire(1)

SpecWorker == WInit /\ [][WNext]_vars

\* The processes dispatch inbound messages and their store operations
\* interleave freely.
UGNextConc ==
    \/ \E p \in Procs, u \in ConcUsers :
          nops < MaxConcOps /\ UGGet(p, "dispatch", u)
    \/ \E p \in Procs : UGIncr(p)
    \/ \E p \in Procs : UGSet(p)
    \/ \E p \in Procs : UGReturn(p)

\* Calls run one after another: a process takes a step only while every
\* other process is idle.
Alone(p) == \A q \in Procs \ {p} : pc[q] = "idle"

UGNextSeq ==
    \/ \E p \in Procs, op \in {"lookup", "dispatch"}, u \in Users :
          Alone(p) /\ nops < MaxOps /\ UGGet(p, op, u)
    \/ \E p \in Procs : Alone(p) /\ UGIncr(p)
    \/ \E p \in Procs : Alone(p) /\ UGSet(p)
    \/ \E p \in Procs : Alone(p) /\ UGReturn(p)

UGRouterInit == UGInit /\ CKQuiet /\ WQuiet

SpecUGSeq == UGRouterInit /\ [][UGNextSeq]_vars
SpecUGConc == UGRouterInit /\ [][UGNextConc]_vars

\* ---- inbound messages dispatched by a started worker of each router ----

\* The worker after startWorker has run to its end under configuration cfg.
WRunning(cfg) ==
    /\ w_config = cfg
    /\ w_pc = Len(startWorker) + 1
    /\ w_error = None
    /\ w_router = setup_routing(cfg).router
    /\ w_publishers =
           {Endpoint("outbound", n) : n \in Range(cfg.transport_names)} \cup
           {Endpoint(k, n) : k \in {"inbound", "event"},
                             n \in Range(cfg.exposed_names)}
    /\ w_consumers =
           {Endpoint(k, n) : k \in {"inbound", "event"},
                             n \in Range(cfg.transport_names)} \cup
           {Endpoint("outbound", n) : n \in Range(cfg.exposed_names)}
    /\ w_served = 0
    /\ w_last = NoWOutcome

InboundInit ==
    \/ /\ UGInit
       /\ CKQuiet
       /\ WRunning([WBaseConfig EXCEPT
                       !.router_class = "UserGroupingRouter"])
    \/ /\ UGQuiet
       /\ \E rc \in RoutingConfigs :
              /\ CKSetup(CKConfig(rc, 1))
              /\ WRunning([WBaseConfig EXCEPT
                              !.router_class = "ContentKeywordRouter",
                              !.rules = rc.rules,
                              !.keyword_mappings = rc.keyword_mappings,
                              !.fallback_application =
                                  rc.fallback_application,
                              !.transport_mappings = TransportMappings])
    \/ /\ UGQuiet
       /\ CKQuiet
       /\ \E cfg \in SimpleConfigs \cup ToAddrConfigs \cup FromAddrConfigs :
              setup_routing(cfg).error = None /\ WRunning(cfg)

\* Inbound messages, one dispatch call after another.
InboundNext ==
    \/ \E p \in Procs, u \in Users :
          /\ RouterClass = "UserGroupingRouter"
          /\ Alone(p) /\ nops < MaxOps
          /\ UGGet(p, "dispatch", u)
    \/ \E p \in Procs : Alone(p) /\ UGIncr(p)
    \/ \E p \in Procs : Alone(p) /\ UGSet(p)
    \/ \E p \in Procs : Alone(p) /\ UGReturn(p)
    \/ \E msg \in InboundMessages :
          RouterClass = "ContentKeywordRouter" /\ CKInbound(msg)
    \/ \E msg \in WMessages : WInboundMessage(msg)

SpecInbound == InboundInit /\ [][InboundNext]_vars

\* ---- a UserGroupingRouter worker: inbound messages, events, outbound ----
\* Inbound dispatches run one after another; events and outbound messages
\* arrive at any point of them.
UGFrameConfig ==
    [WBaseConfig EXCEPT
        !.router_class = "UserGroupingRouter",
        !.route_mappings = ("transport1" :> <<"app1", "app2">>) @@
                           ("transport2" :> <<"app3">>),
        !.transport_mappings = ("app1" :> "transport2")]

FrameMessages ==
    {m \in WMessages : m.to_addr = <<1>> /\ m.from_addr = <<5>>}

UGFrameInit == UGInit /\ CKQuiet /\ WRunning(UGFrameConfig)

UGFrameNext ==
    \/ \E p \in Procs, u \in ConcUsers :
          Alone(p) /\ nops < MaxServed /\ UGGet(p, "dispatch", u)
    \/ \E p \in Procs : Alone(p) /\ UGIncr(p)
    \/ \E p \in Procs : Alone(p) /\ UGSet(p)
    \/ \E p \in Procs : Alone(p) /\ UGReturn(p)
    \/ \E msg \in FrameMessages : WInboundEvent(msg)
    \/ \E msg \in FrameMessages : WOutbound(msg)

SpecUGFrame == UGFrameInit /\ [][UGFrameNext]_vars

\* ------------------------------------------------------------------------
\* Properties of UserGroupingRouter
\* ------------------------------------------------------------------------

AllIdle == \A p \in Procs : pc[p] = "idle"

\* C1: with calls running one after another, once get_group_for_user(u) has
\* returned a group, every later lookup of u returns that group and every
\* later dispatch of a message from u is published, without failing, to
\* group_mappings of that group; the stored entry keeps that group whatever
\* other users are assigned in between.
C1_StableGroup ==
    /\ done.op # None =>
          /\ done.group = first_ret[done.user]
          /\ done.op = "dispatch" =>
                 /\ ~done.raised
                 /\ done.app = groups[first_ret[done.user]]
    /\ \A u \in Users : first_ret[u] # None => r_user[u] = first_ret[u]

\* A dispatch of a message from the first user, who already had a group,
\* finished after two other users were assigned theirs.
C1_Witness ==
    /\ done.op = "dispatch"
    /\ done.found
    /\ r_counter = 3
    /\ new_users[1] = done.user

\* C2 as stated: under free interleaving of the processes' store operations,
\* a user key that holds a group is never overwritten with another group.
C2_NeverReassigned ==
    [][\A u \in Users : r_user[u] # None => r_user'[u] = r_user[u]]_vars

\* C3: however the first-message dispatches of a user raced, once no call
\* for the user is in progress the store holds the group written by the
\* latest set; a dispatch begun then, with the entry present, is published
\* to the app of the stored group; and no dispatch fails.
C3_SingleWinner ==
    /\ \A u \in Users :
          (Quiescent(u) /\ last_set[u] # None) => r_user[u] = last_set[u]
    /\ ~done.raised
    /\ (done.op = "dispatch" /\ done.quiet) =>
           /\ done.group = r_user[done.user]
           /\ done.app = groups[r_user[done.user]]

\* Two racing first messages of a user were published to different apps,
\* and a later dispatch for that user, begun after both had finished, has
\* been published.
C3_Witness ==
    /\ done.op = "dispatch"
    /\ done.quiet
    /\ Cardinality(first_apps[done.user]) = 2

\* Position of group name g among the configured names in sorted order,
\* counted from 0.
RankOfGroup(g) == Cardinality({h \in DOMAIN groups : LexLess(h, g)})

\* C4: without races and from an empty store, the k-th distinct first-time
\* user (k from 0) gets the group at index k mod nr_of_groups of the sorted
\* group names; users arrive in the sequence at most once, and between calls
\* the counter equals the number of users assigned, so that messages from
\* assigned users do not advance it.
C4_RoundRobin ==
    /\ \A k \in 1..Len(new_users) :
          /\ \A j \in 1..Len(new_users) : new_users[j] = new_users[k] => j = k
          /\ r_user[new_users[k]] # None =>
                 /\ r_user[new_users[k]] \in DOMAIN groups
                 /\ RankOfGroup(r_user[new_users[k]]) = (k - 1) % nr_of_groups
    /\ AllIdle =>
          /\ r_counter = Len(new_users)
          /\ r_counter = Cardinality({u \in Users : r_user[u] # None})

\* Three users were assigned in turn under two groups (the third wraps
\* around to the first group) and a message from an assigned user followed.
C4_Witness ==
    /\ AllIdle
    /\ nr_of_groups = 2
    /\ Len(new_users) = 3
    /\ nops = 4
    /\ r_user[new_users[3]] = r_user[new_users[1]]

\* ------------------------------------------------------------------------
\* Properties of ContentKeywordRouter
\* ------------------------------------------------------------------------

\* C5 as stated: an event whose user_message_id has a correlation entry in
\* the store (it arrives before the entry expires) is published exactly
\* once, to the event endpoint of the exposed app that sent the outbound
\* message which wrote the entry; an event that finds no entry is published
\* nowhere.
C5_EventToOriginator ==
    ck_last.op = "event" =>
        IF ck_last.name # None
        THEN ck_last.publishes = <<ck_last.sender>>
        ELSE ck_last.publishes = <<>>

\* C6: in every interleaving of outbound dispatches, events, expiry and
\* crashes, a dispatched event is published to at most one event endpoint,
\* and only to the one named by the entry stored for its user_message_id
\* when it is dispatched; with no entry stored it is published nowhere, a
\* diagnostic is logged and nothing is raised.
C6_NoMisdelivery ==
    [][ck_last'.op = "event" =>
          LET e == r_msg[ck_last'.msg.user_message_id]
          IN  /\ Len(ck_last'.publishes) <= 1
              /\ ck_last'.publishes # <<>> =>
                     (e.present /\ ck_last'.publishes = <<e.name>>)
              /\ ~e.present =>
                     /\ ck_last'.publishes = <<>>
                     /\ ck_last'.diags >= 1
                     /\ ~ck_last'.raised]_vars

\* An event was dropped while the outbound dispatch of its message had
\* published to the transport and not yet written the entry.
C6_Witness ==
    /\ ck_last.op = "event"
    /\ ck_last.name = None
    /\ ck_last.publishes = <<>>
    /\ \E p \in CKProcs :
          /\ ck_pc[p] = "set"
          /\ ck_call[p].msg.message_id = ck_last.msg.user_message_id

\* C7 as stated: a correlation entry is never found in the store more than
\* expire_routing_memory seconds after it was written.
C7_ExpiredAfterTTL ==
    \A m \in MessageIds :
        r_msg[m].present => corr[m].age <= expire_routing_timeout

\* The rule list as configured: the explicit rules in declaration order,
\* then the rules of keyword_mappings; keywords in lower case.
NumRules == Len(config.rules) + Len(config.keyword_mappings)
ConfiguredRule(i) ==
    IF i <= Len(config.rules)
    THEN [config.rules[i] EXCEPT !.keyword = Lower(@)]
    ELSE LET km == config.keyword_mappings[i - Len(config.rules)]
         IN  [app |-> km[1], keyword |-> Lower(km[2])]

RuleMatches(r, msg) ==
    /\ Lower(get_first_word(msg.content)) = r.keyword
    /\ "to_addr" \in DOMAIN r => msg.to_addr = r.to_addr
    /\ "prefix" \in DOMAIN r => StartsWith(msg.from_addr, r.prefix)

\* The positions of the rules that match msg, ascending.
MatchingRules(msg) ==
    SelectSeq([i \in 1..NumRules |-> i],
              LAMBDA i : RuleMatches(ConfiguredRule(i), msg))

\* C8: the publishes of dispatch_inbound_message are, in rule order, the
\* apps of all the rules that match the message (an app once per matching
\* rule that targets it); when no rule matches, nothing is published on
\* account of a rule.
C8_FanOut ==
    ck_last.op = "inbound" =>
        LET m == MatchingRules(ck_last.msg)
        IN  IF m # <<>>
            THEN ck_last.publishes =
                     [k \in 1..Len(m) |-> ConfiguredRule(m[k]).app]
            ELSE ck_last.publishes \in {<<>>, <<fallback_application>>}

\* A message matched three rules, two of them targeting app1: the explicit
\* rules for "A" and for the prefix, and the keyword_mappings rule of app3.
C8_Witness ==
    /\ ck_last.op = "inbound"
    /\ ck_last.publishes = <<"app1", "app1", "app3">>

\* C9: when no rule matches, the message is published once, to the
\* fallback application, if one is configured, and otherwise nowhere with
\* one diagnostic logged; when a rule matches, there is one publish per
\* matching rule and none for the fallback application as such.
C9_Fallback ==
    ck_last.op = "inbound" =>
        LET m == MatchingRules(ck_last.msg)
        IN  /\ ~ck_last.raised
            /\ (m = <<>> /\ fallback_application # None) =>
                   /\ ck_last.publishes = <<fallback_application>>
                   /\ ck_last.diags = 0
            /\ (m = <<>> /\ fallback_application = None) =>
                   /\ ck_last.publishes = <<>>
                   /\ ck_last.diags = 1
            /\ m # <<>> =>
                   /\ Len(ck_last.publishes) = Len(m)
                   /\ \A k \in 1..Len(m) :
                          ck_last.publishes[k] = ConfiguredRule(m[k]).app

\* A message that matches no rule went to the configured fallback
\* application.
C9_Witness ==
    /\ ck_last.op = "inbound"
    /\ MatchingRules(ck_last.msg) = <<>>
    /\ fallback_application # None
    /\ ck_last.publishes = <<fallback_application>>

\* C10: an event whose entry is missing, or names something without an
\* event publisher, is published nowhere, at least one diagnostic is logged,
\* nothing is raised out of the call, and the store is left as it was.
C10_EventMiss ==
    [][ck_last'.op = "event" =>
          LET e == r_msg[ck_last'.msg.user_message_id]
          IN  (~e.present \/ e.name \notin exposed_names) =>
                  /\ ck_last'.publishes = <<>>
                  /\ ck_last'.diags >= 1
                  /\ ~ck_last'.raised
                  /\ r_msg' = r_msg]_vars

\* An event found an entry naming a transport, which has no event
\* publisher, and was dropped.
C10_Witness ==
    /\ ck_last.op = "event"
    /\ ck_last.name = "transport1"
    /\ ck_last.publishes = <<>>
    /\ ck_last.diags = 1

\* C11: dispatch_outbound_message of a message whose from_addr is not a key
\* of transport_mappings publishes nothing, logs one error, raises nothing,
\* leaves the store as it was and starts no store operation; with a mapped
\* from_addr the message is published exactly once, to the mapped transport.
C11_OutboundUnmapped ==
    [][ck_last'.op = "outbound" =>
          LET msg == ck_last'.msg
          IN  IF msg.from_addr \notin DOMAIN config.transport_mappings
              THEN /\ ck_last'.publishes = <<>>
                   /\ ck_last'.diags = 1
                   /\ ~ck_last'.raised
                   /\ r_msg' = r_msg
                   /\ ck_pc' = ck_pc
              ELSE /\ ck_last'.publishes =
                          <<config.transport_mappings[msg.from_addr]>>
                   /\ ck_last'.diags = 0
                   /\ ~ck_last'.raised]_vars

\* An outbound message with an unmapped from_addr was dropped while the
\* store held an entry of an earlier message.
C11_Witness ==
    /\ ck_last.op = "outbound"
    /\ ck_last.msg.from_addr \notin DOMAIN config.transport_mappings
    /\ ck_last.diags = 1
    /\ \E m \in MessageIds : r_msg[m].present

\* ------------------------------------------------------------------------
\* Properties of the worker and of the routers without a store
\* ------------------------------------------------------------------------

\* C12 as stated: FromAddrMultiplexRouter.dispatch_outbound_message of a
\* message whose from_addr is not a key of fromaddr_mappings publishes
\* nothing, logs an error and raises nothing; with a mapped from_addr the
\* message is published exactly once, to the mapped transport, carrying that
\* transport's name as transport_name.
C12_FromAddrOutbound ==
    (RouterClass = "FromAddrMultiplexRouter" /\ w_last.op = "outbound") =>
        LET from_addr == w_last.msg.from_addr
        IN  IF from_addr \notin DOMAIN w_config.fromaddr_mappings
            THEN /\ w_last.publishes = <<>>
                 /\ w_last.diags >= 1
                 /\ ~w_last.raised
            ELSE /\ ~w_last.raised
                 /\ w_last.publishes =
                        <<[kind |-> "outbound",
                           name |-> w_config.fromaddr_mappings[from_addr],
                           transport_name |->
                               w_config.fromaddr_mappings[from_addr]]>>

\* The destinations ContentKeywordRouter resolves for an inbound message:
\* the apps of the matching rules, else the fallback application.
InboundDestinations(msg) ==
    LET m == MatchingRules(msg)
    IN  IF m # <<>> THEN {ConfiguredRule(m[k]).app : k \in 1..Len(m)}
        ELSE IF fallback_application # None THEN {fallback_application}
        ELSE {}

\* C13 as stated: a ContentKeywordRouter dispatch whose resolved destination
\* has no publisher (inbound: the app of a matching rule or the fallback
\* application is no exposed endpoint; outbound: the mapped transport is no
\* transport endpoint) logs a diagnostic and raises nothing, and nothing
\* is published to the destination that is missing.
C13_RoutingMissHandled ==
    /\ ck_last.op = "inbound" =>
           (InboundDestinations(ck_last.msg) \ exposed_names # {} =>
                ck_last.diags >= 1 /\ ~ck_last.raised)
    /\ ck_last.op = "outbound" =>
           LET from_addr == ck_last.msg.from_addr
           IN  (/\ from_addr \in DOMAIN config.transport_mappings
                /\ config.transport_mappings[from_addr] \notin transport_names)
               => /\ ck_last.diags >= 1
                  /\ ~ck_last.raised
                  /\ ck_last.publishes = <<>>

\* The configurations a router's setup must reject: FromAddrMultiplexRouter
\* with no or several exposed names, ContentKeywordRouter with an explicit
\* rule lacking app or keyword, ToAddrRouter with a pattern that does not
\* compile.
Rejected(cfg) ==
    \/ /\ cfg.router_class = "FromAddrMultiplexRouter"
       /\ Len(cfg.exposed_names) # 1
    \/ /\ cfg.router_class = "ContentKeywordRouter"
       /\ \E i \in 1..Len(cfg.rules) :
              {"app", "keyword"} \ DOMAIN cfg.rules[i] # {}
    \/ /\ cfg.router_class = "ToAddrRouter"
       /\ \E i \in 1..Len(cfg.toaddr_mappings) :
              ReOpen \in Range(cfg.toaddr_mappings[i][2])

\* C14: a worker whose router configuration is rejected never gets past
\* setup_router: no consumer is ever subscribed and no inbound message,
\* event or outbound message is ever dispatched.
C14_FailFast ==
    Rejected(w_config) =>
        /\ w_pc <= 2
        /\ w_consumers = {}
        /\ w_served = 0
        /\ w_last = NoWOutcome
        /\ ck_last = NoOutcome

\* startWorker was ended by the exception of a rejected configuration.
C14_Witness ==
    /\ Rejected(w_config)
    /\ w_error \in {"ConfigError", "re.error"}
    /\ w_pc = 2

\* The number of publishes of a call made to the endpoint (kind, name).
TimesPublished(publishes, kind, name) ==
    Cardinality({i \in 1..Len(publishes) :
                    publishes[i].kind = kind /\ publishes[i].name = name})

\* C15: SimpleDispatchRouter publishes an inbound message (an inbound event)
\* with transport_name T, a key of route_mappings, exactly once to the
\* inbound (event) endpoint of each app listed for T and to no other
\* endpoint, and raises nothing.
C15_SimpleRoutes ==
    (/\ RouterClass = "SimpleDispatchRouter"
     /\ w_last.op \in {"inbound", "event"}
     /\ w_last.msg.transport_name \in DOMAIN w_config.route_mappings) =>
        LET names == w_config.route_mappings[w_last.msg.transport_name]
        IN  /\ ~w_last.raised
            /\ \A n \in Range(names) :
                   TimesPublished(w_last.publishes, w_last.op, n) = 1
            /\ \A i \in 1..Len(w_last.publishes) :
                   /\ w_last.publishes[i].kind = w_last.op
                   /\ w_last.publishes[i].name \in Range(names)

\* An event arriving from transport1 was published to app1 and app2.
C15_Witness ==
    /\ RouterClass = "SimpleDispatchRouter"
    /\ w_last.op = "event"
    /\ w_last.msg.transport_name = "transport1"
    /\ Len(w_last.publishes) = 2

\* C16: FromAddrMultiplexRouter with the single exposed name E publishes
\* every inbound message and every inbound event exactly once, to E's
\* inbound (event) endpoint, with transport_name rewritten to E.
C16_MultiplexInbound ==
    (/\ RouterClass = "FromAddrMultiplexRouter"
     /\ w_last.op \in {"inbound", "event"}) =>
        LET E == w_config.exposed_names[1]
        IN  /\ Len(w_config.exposed_names) = 1
            /\ ~w_last.raised
            /\ w_last.publishes =
                   <<[kind |-> w_last.op, name |-> E, transport_name |-> E]>>

\* An event that came with transport_name transport2 was published.
C16_Witness ==
    /\ RouterClass = "FromAddrMultiplexRouter"
    /\ w_last.op = "event"
    /\ w_last.msg.transport_name = "transport2"
    /\ w_last.publishes # <<>>

\* C17: ToAddrRouter.dispatch_inbound_message publishes the message once to
\* every app whose pattern matches to_addr from position zero and to no
\* other app, raising nothing (also when no pattern matches);
\* dispatch_inbound_event publishes nothing.
C17_ToAddrMatches ==
    RouterClass = "ToAddrRouter" =>
        /\ w_last.op = "inbound" =>
               LET mappings == w_config.toaddr_mappings
                   hits == {i \in 1..Len(mappings) :
                               re_match(mappings[i][2], w_last.msg.to_addr)}
               IN  /\ ~w_last.raised
                   /\ Len(w_last.publishes) = Cardinality(hits)
                   /\ \A i \in 1..Len(mappings) :
                          TimesPublished(w_last.publishes, "inbound",
                                         mappings[i][1])
                              = IF i \in hits THEN 1 ELSE 0
        /\ w_last.op = "event" =>
               w_last.publishes = <<>> /\ ~w_last.raised

\* to_addr "abc" went to the apps of "a" and ".b" and not to that of "ab$".
C17_Witness ==
    /\ RouterClass = "ToAddrRouter"
    /\ w_last.op = "inbound"
    /\ w_last.msg.to_addr = <<1, 2, 3>>
    /\ {w_last.publishes[i].name : i \in 1..Len(w_last.publishes)}
           = {"app1", "app3"}

\* The endpoints a sequence of publishes went to.
Destinations(publishes) ==
    {Endpoint(publishes[i].kind, publishes[i].name) :
         i \in 1..Len(publishes)}

\* The message of a dispatch as the dispatch left it: as it came, or with
\* the transport_name it was published with.
Redelivered(out) ==
    {out.msg} \cup
    {[out.msg EXCEPT !.transport_name = out.publishes[i].transport_name] :
         i \in 1..Len(out.publishes)}

\* SimpleDispatchRouter, ToAddrRouter, FromAddrMultiplexRouter: an inbound
\* dispatch of the message that was dispatched just before.
TwiceStateless ==
    (/\ w_last.op = "inbound"
     /\ w_last'.op = "inbound"
     /\ w_served' = w_served + 1
     /\ w_last'.msg \in Redelivered(w_last)) =>
        /\ Destinations(w_last'.publishes) = Destinations(w_last.publishes)
        /\ w_last'.raised = w_last.raised
        /\ UNCHANGED <<w_config, w_router, w_publishers, w_consumers>>

\* UserGroupingRouter: the steps of a dispatch for the user whose dispatch
\* finished just before.
TwiceUserGrouping ==
    \A p \in Procs :
        /\ (/\ done.op = "dispatch"
            /\ pc[p] = "idle" /\ pc'[p] # "idle"
            /\ call'[p].user = done.user) =>
               /\ pc'[p] = "ret"
               /\ UNCHANGED <<groups, r_user, r_counter>>
        /\ (/\ done.op = "dispatch"
            /\ pc[p] = "ret" /\ pc'[p] = "idle"
            /\ call[p].op = "dispatch"
            /\ call[p].user = done.user) =>
               /\ done'.app = done.app
               /\ done'.raised = done.raised
               /\ UNCHANGED <<groups, r_user, r_counter>>

\* Two inbound messages of ContentKeywordRouter are the same message (the
\* content may be None).
SameInbound(m1, m2) ==
    /\ IF m1.content = None \/ m2.content = None
       THEN m1.content = None /\ m2.content = None
       ELSE m1.content = m2.content
    /\ m1.to_addr = m2.to_addr
    /\ m1.from_addr = m2.from_addr

\* ContentKeywordRouter: an inbound dispatch leaves the router and the
\* store as they were, and the dispatch of the message dispatched just
\* before goes where that one went.
TwiceKeyword ==
    ck_last'.op = "inbound" =>
        /\ UNCHANGED <<config, rules, r_msg>>
        /\ (ck_last.op = "inbound" /\ SameInbound(ck_last'.msg, ck_last.msg))
           =>
               /\ Range(ck_last'.publishes) = Range(ck_last.publishes)
               /\ ck_last'.raised = ck_last.raised

C19_PersistBeforePublish ==
    \A p \in Procs :
        (pc[p] = "ret" /\ call[p].op = "dispatch") =>
            /\ r_user[call[p].user] # None
            /\ ~call[p].found => last_set[call[p].user] # None

\* A dispatch for a user that had no group is about to publish.
C19_Witness ==
    \E p \in Procs :
        /\ pc[p] = "ret"
        /\ call[p].op = "dispatch"
        /\ ~call[p].found
        /\ r_user[call[p].user] = call[p].group

\* C20: a correlation entry's value and remaining time to live are left as
\* they are by every dispatch_inbound_event (hit or miss), every
\* dispatch_inbound_message, and every step of an outbound dispatch of
\* another message_id; the time to live is set by the outbound dispatch that
\* writes the entry and by nothing after it.
C20_NoRefresh ==
    [][\A m \in MessageIds :
          /\ ck_last'.op \in {"event", "inbound", "outbound"} =>
                 r_msg'[m] = r_msg[m]
          /\ \A p \in CKProcs :
                 (/\ ck_pc[p] \in {"set", "expire"}
                  /\ ck_pc'[p] # ck_pc[p]
                  /\ ck_call[p].msg.message_id # m) =>
                     r_msg'[m] = r_msg[m]]_vars

\* An event found its entry when part of the entry's time to live had
\* passed.
C20_Witness ==
    /\ ck_last.op = "event"
    /\ ck_last.name # None
    /\ LET e == r_msg[ck_last.msg.user_message_id]
       IN  e.present /\ e.ttl >= 1 /\ e.ttl < expire_routing_timeout

\* C21: dispatch_inbound_event and dispatch_outbound_message of a
\* UserGroupingRouter leave the counter and every user assignment as they
\* are; an event with transport_name T, a key of route_mappings, is
\* published once to the event endpoint of each app listed for T; an
\* outbound message is published once, to the transport that
\* transport_mappings gives for its transport_name, or to the transport of
\* that name when it has no mapping.
C21_OnlyInboundCustomized ==
    [][(RouterClass = "UserGroupingRouter" /\ w_served' = w_served + 1) =>
          LET msg == w_last'.msg
              T == msg.transport_name
              remap == w_config.transport_mappings
              name == IF T \in DOMAIN remap THEN remap[T] ELSE T
          IN  /\ UNCHANGED <<r_user, r_counter>>
              /\ w_last'.op \in {"event", "outbound"}
              /\ (/\ w_last'.op = "event"
                  /\ T \in DOMAIN w_config.route_mappings) =>
                     /\ ~w_last'.raised
                     /\ w_last'.publishes =
                            [i \in 1..Len(w_config.route_mappings[T]) |->
                                [kind |-> "event",
                                 name |-> w_config.route_mappings[T][i],
                                 transport_name |-> T]]
              /\ (w_last'.op = "outbound" /\ name \in TransportNames) =>
                     /\ ~w_last'.raised
                     /\ w_last'.publishes =
                            <<[kind |-> "outbound", name |-> name,
                               transport_name |-> T]>>]_vars

\* With a user assigned, an outbound message of app1 went to transport2,
\* the transport that transport_mappings gives for app1.
C21_Witness ==
    /\ RouterClass = "UserGroupingRouter"
    /\ w_last.op = "outbound"
    /\ w_last.msg.transport_name = "app1"
    /\ w_last.publishes # <<>>
    /\ w_last.publishes[1].name = "transport2"
    /\ r_counter >= 1
    /\ \E u \in Users : r_user[u] # None

\* Processes that found their user absent and have not yet incremented.
AwaitingIncr == {p \in Procs : pc[p] = "incr"}

\* C22: with the processes interleaving freely, the counter never
\* decreases; it has been incremented once for each lookup that found its
\* user absent and has got past the increment, and not at all for the
\* lookups that found their user present; a step that leaves the lookups
\* that found the user absent as they are leaves the counter as it is; and
\* the counter values obtained by the increments are pairwise different.
C22_AtomicCounter ==
    /\ [](/\ r_counter = Len(obtained)
          /\ r_counter = Len(new_users) - Cardinality(AwaitingIncr)
          /\ \A i, j \in 1..Len(obtained) :
                obtained[i] = obtained[j] => i = j)
    /\ [][/\ r_counter' >= r_counter
          /\ (new_users' = new_users /\ AwaitingIncr' = AwaitingIncr) =>
                 r_counter' = r_counter
          /\ \A p \in Procs :
                (pc[p] = "idle" /\ pc'[p] = "ret") =>
                    /\ call'[p].found
                    /\ r_counter' = r_counter
                    /\ new_users' = new_users]_vars

\* Two processes found the same user absent and both have incremented:
\* two counter values were obtained for the one user.
C22_Witness ==
    /\ \A p \in Procs : pc[p] = "set" /\ call[p].user = 1
    /\ Len(obtained) = 2
    /\ r_counter = 2

\* The users whose store key holds group name g.
AssignedTo(g) == {u \in Users : r_user[u] # None /\ r_user[u] = g}

\* C23: from an empty store and with calls running one after another, the
\* numbers of users assigned to any two configured groups differ by at most
\* one, and every group held by a user key is a configured group.
C23_Balanced ==
    /\ \A g, h \in DOMAIN groups :
          Cardinality(AssignedTo(g)) - Cardinality(AssignedTo(h)) \in -1..1
    /\ \A u \in Users : r_user[u] # None => r_user[u] \in DOMAIN groups

\* Every user is assigned under three groups, one user to each group, after
\* a further message from an assigned user.
C23_Witness ==
    /\ AllIdle
    /\ nr_of_groups = 3
    /\ nops = MaxOps
    /\ \A u \in Users : r_user[u] # None
    /\ \A g \in DOMAIN groups : Cardinality(AssignedTo(g)) = 1

====
